---- MODULE Spec2Model ----
(***************************************************************************)
(* The e-mail relay of AlexObbs/email-system: three variants of one        *)
(* Express application.                                                    *)
(*   "part_000"  src/unnamed/part_000  Brevo, `cors` package, logging      *)
(*   "index"     src/index.js          Brevo, hand-written CORS middleware *)
(*   "part_001"  src/unnamed/part_001  SendGrid, hand-written CORS         *)
(* One request is followed through the middleware chain of the variant:    *)
(* body parser -> CORS middleware -> route (credential check, handler)     *)
(* -> provider call -> response.                                           *)
(*                                                                         *)
(* Strings that the code takes apart (origins, the ALLOWED_ORIGINS         *)
(* environment value) are sequences of tokens, "/" "," and " " being       *)
(* tokens of their own.  JSON values are records tagged with their kind,   *)
(* each kind with a field of its own for its content.                      *)
(***************************************************************************)
EXTENDS Integers, Sequences, FiniteSets, TLC

VARIABLES variant, nodeEnv, envOrigins, pc, req, res, reached, calls, outcome

vars == <<variant, nodeEnv, envOrigins, pc, req, res, reached, calls, outcome>>

(* Bounds of the model: the longest recipient list and the longest CC list *)
MaxTo == 2
MaxCc == 2

Variants == {"part_000", "index", "part_001"}

---------------------------------------------------------------------------
(* JavaScript values *)

Undefined == [kind |-> "undefined"]
Str(s) == [kind |-> "string", str |-> s]
Arr(a) == [kind |-> "array", items |-> a]
Bool(b) == [kind |-> "boolean", bool |-> b]
Text(t) == [kind |-> "text", tokens |-> t]
AddressObject(e) == [kind |-> "object", email |-> e]
JsonObject(j) == [kind |-> "object", json |-> j]

(* !v is false for a non-empty string, for every array and every object *)
Truthy(v) ==
    \/ v.kind = "array"
    \/ v.kind = "object"
    \/ (v.kind = "string" /\ v.str # "")

IsArray(v) == v.kind = "array"

(* a || b *)
OrElse(a, b) == IF Truthy(a) THEN a ELSE b

(* A header: absent, or present with a value *)
NoHeader == [present |-> FALSE]
Header(v) == [present |-> TRUE, val |-> v]

---------------------------------------------------------------------------
(* Token strings *)

EndsWithSlash(s) == Len(s) > 0 /\ s[Len(s)] = "/"

DropLast(s) == SubSeq(s, 1, Len(s) - 1)

RECURSIVE TrimLeft(_)
TrimLeft(s) == IF Len(s) > 0 /\ Head(s) = " " THEN TrimLeft(Tail(s)) ELSE s

RECURSIVE TrimRight(_)
TrimRight(s) ==
    IF Len(s) > 0 /\ s[Len(s)] = " " THEN TrimRight(DropLast(s)) ELSE s

Trim(s) == TrimLeft(TrimRight(s))

(* s.split(','): the pieces between the commas, empty pieces included *)
RECURSIVE SplitFrom(_, _, _)
SplitFrom(s, i, piece) ==
    IF i > Len(s) THEN <<piece>>
    ELSE IF s[i] = "," THEN <<piece>> \o SplitFrom(s, i + 1, <<>>)
    ELSE SplitFrom(s, i + 1, Append(piece, s[i]))

Split(s) == SplitFrom(s, 1, <<>>)

Includes(list, x) == \E i \in 1..Len(list) : list[i] = x

(* self.indexOf(value) === index: keep the first occurrence of each value *)
RemoveDuplicates(list) ==
    SelectSeq([i \in 1..Len(list) |->
                  [v |-> list[i],
                   first |-> \A j \in 1..(i - 1) : list[j] # list[i]]],
              LAMBDA e : e.first)

Values(list) == [i \in 1..Len(list) |-> list[i].v]

NonEmpty(s) == Len(s) > 0

---------------------------------------------------------------------------
(* Configuration read at start-up *)

Kenya == <<"https://kenyaonabudgetsafaris.co.uk">>
WwwKenya == <<"https://www.kenyaonabudgetsafaris.co.uk">>
Extra == <<"https://extra.example">>
Evil == <<"https://evil.example">>

BuiltInOrigins ==
    <<Kenya, WwwKenya, <<"http://127.0.0.1:5500">>,
      <<"http://localhost:5500">>, <<"http://localhost:3000">> >>

(* process.env.ALLOWED_ORIGINS: unset, or " https://extra.example,https://kenyaonabudgetsafaris.co.uk," *)
EnvChoices ==
    { NoHeader,
      Header(<<" ">> \o Extra \o <<",">> \o Kenya \o <<",">>) }

(* process.env.X || '' and process.env.X || default *)
EnvOr(env, default) ==
    IF env.present /\ Len(env.val) > 0 THEN env.val ELSE default

ALLOWED_ORIGINS(v, env) ==
    IF v = "part_000"
    THEN Values(RemoveDuplicates(
             BuiltInOrigins \o
             SelectSeq([i \in 1..Len(Split(EnvOr(env, <<>>))) |->
                           Trim(Split(EnvOr(env, <<>>))[i])],
                       NonEmpty)))
    ELSE Split(EnvOr(env, Kenya))

API_SECRET_KEY(v) ==
    IF v = "part_000" THEN "thiswillbesecretkey45" ELSE "your-secret-key-here"

DefaultFrom == Str("info@kenyaonabudgetsafaris.co.uk")
DefaultName == Str("KenyaOnABudget Safaris")

---------------------------------------------------------------------------
(* Requests *)

Methods == {"GET", "POST", "OPTIONS"}
Paths == {"/send-email", "/health", "/cors-test", "/unknown"}

Origins ==
    { NoHeader, Header(Kenya), Header(Kenya \o <<"/">>), Header(Evil),
      Header(Extra) }

ApiKeys ==
    { NoHeader, Header("thiswillbesecretkey45"), Header("your-secret-key-here") }

AddressPool == <<"a@x.com", "b@x.com", "c@x.com", "d@x.com">>

AddressList(n) == Arr([i \in 1..n |-> Str(AddressPool[i])])

ToValues ==
    {Undefined, Str(""), Str("a@x.com")} \cup {AddressList(n) : n \in 0..MaxTo}

CcValues ==
    {Undefined, Str("c@x.com")} \cup {AddressList(n) : n \in 0..MaxCc}

TextValues(s) == {Undefined, Str(""), Str(s)}

SendBodies ==
    [to : ToValues, subject : TextValues("Hi"), html : TextValues("<p>hi</p>"),
     cc : CcValues, from : {Undefined}, name : {Undefined}]

EmptyBody ==
    [to |-> Undefined, subject |-> Undefined, html |-> Undefined,
     cc |-> Undefined, from |-> Undefined, name |-> Undefined]

FullBody ==
    [to |-> Str("a@x.com"), subject |-> Str("Hi"), html |-> Str("<p>hi</p>"),
     cc |-> AddressList(1), from |-> Str("me@x.com"), name |-> Str("Me")]

OtherBodies == {EmptyBody, FullBody}

IsSend(r) == r.method = "POST" /\ r.path = "/send-email"

Requests ==
    [method : {"POST"}, path : {"/send-email"}, origin : Origins,
     apiKey : ApiKeys, body : SendBodies \cup OtherBodies]
    \cup
    { r \in [method : Methods, path : Paths, origin : Origins,
             apiKey : ApiKeys, body : OtherBodies] : ~IsSend(r) }

NoRequest ==
    [method |-> "GET", path |-> "/health", origin |-> NoHeader,
     apiKey |-> NoHeader, body |-> EmptyBody]

NoBody == [success |-> Undefined, data |-> Undefined, error |-> Undefined]

NoResponse == [status |-> 0, acao |-> NoHeader, by |-> "none", body |-> NoBody]

Pending == [kind |-> "none"]

---------------------------------------------------------------------------
(* State *)

Init ==
    /\ variant \in Variants
    /\ nodeEnv \in {"production", "development"}
    /\ envOrigins \in EnvChoices
    /\ pc = "idle"
    /\ req = NoRequest
    /\ res = NoResponse
    /\ reached = {}
    /\ calls = <<>>
    /\ outcome = Pending

Config == <<variant, nodeEnv, envOrigins>>

Receive ==
    /\ pc = "idle"
    /\ \E r \in Requests : req' = r
    /\ pc' = "cors"
    /\ res' = NoResponse
    /\ reached' = {}
    /\ calls' = <<>>
    /\ outcome' = Pending
    /\ UNCHANGED Config

(* The route the router picks once the CORS middleware has called next() *)
Route(v, r) ==
    IF v = "part_000" /\ r.method = "GET" /\ r.path = "/cors-test" THEN "corsTest"
    ELSE IF r.method = "GET" /\ r.path = "/health" THEN "health"
    ELSE IF r.method = "POST" /\ r.path = "/send-email" THEN "validateApiKey"
    ELSE "notFound"

---------------------------------------------------------------------------
(* CORS *)

(* CleanOrigin without the trimming of the trailing slash *)
CleanOriginUntrimmed(o) == o

CleanOrigin(o) == IF EndsWithSlash(o) THEN DropLast(o) ELSE o

(* !origin: the header is absent or the empty string *)
HasOrigin(h) == h.present /\ Len(h.val) > 0

(* part_000: the origin callback handed to the cors package.  TRUE is      *)
(* callback(null, true), FALSE is callback(new Error(...)).                *)
OriginCallback(mode, env, h) ==
    \/ ~HasOrigin(h)
    \/ Includes(ALLOWED_ORIGINS("part_000", env), CleanOrigin(h.val))
    \/ mode = "development"

(* The Access-Control-Allow-Origin header the middleware leaves on the     *)
(* response.  With origin: true the cors package reflects the request's    *)
(* Origin header and sets nothing when the request has none.               *)
AllowOriginHeader(v, mode, env, h) ==
    IF v = "part_000"
    THEN IF OriginCallback(mode, env, h) /\ HasOrigin(h)
         THEN Header(h.val) ELSE NoHeader
    ELSE IF h.present /\ Includes(ALLOWED_ORIGINS(v, env), h.val)
         THEN Header(h.val) ELSE NoHeader

(* The status of the answer to a pre-flight request *)
PreflightStatus(v) == IF v = "part_000" THEN 204 ELSE 200

(* What the CORS middleware does with the request: "error" is next(err),   *)
(* "end" answers the request, "next" is next().                            *)
CorsDecision(v, mode, env, r) ==
    IF v = "part_000" /\ ~OriginCallback(mode, env, r.origin) THEN "error"
    ELSE IF r.method = "OPTIONS" THEN "end"
    ELSE "next"

CorsMiddleware ==
    /\ pc = "cors"
    /\ reached' = reached \cup {"cors"}
    /\ LET d == CorsDecision(variant, nodeEnv, envOrigins, req)
           h == AllowOriginHeader(variant, nodeEnv, envOrigins, req.origin)
       IN  CASE d = "error" ->
                  /\ pc' = "errorHandler"
                  /\ res' = res
             [] d = "end" ->
                  /\ pc' = "done"
                  /\ res' = [res EXCEPT !.status = PreflightStatus(variant),
                                        !.acao = h, !.by = "cors"]
             [] d = "next" ->
                  /\ pc' = Route(variant, req)
                  /\ res' = [res EXCEPT !.acao = h]
    /\ UNCHANGED <<Config, req, calls, outcome>>

(* part_000: the final error-handling middleware *)
ErrorHandler ==
    /\ pc = "errorHandler"
    /\ pc' = "done"
    /\ res' = [res EXCEPT !.status = 500, !.by = "errorHandler",
                          !.body = [NoBody EXCEPT
                                       !.error = Str("Internal Server Error")]]
    /\ UNCHANGED <<Config, req, reached, calls, outcome>>

---------------------------------------------------------------------------
(* Credential check *)

KeyAccepted(v, key) ==
    /\ key.present
    /\ key.val # ""
    /\ key.val = API_SECRET_KEY(v)

ValidateApiKey ==
    /\ pc = "validateApiKey"
    /\ reached' = reached \cup {"validateApiKey"}
    /\ IF KeyAccepted(variant, req.apiKey)
       THEN /\ pc' = "sendEmail"
            /\ res' = res
       ELSE /\ pc' = "done"
            /\ res' = [res EXCEPT !.status = 401, !.by = "validateApiKey",
                          !.body = [NoBody EXCEPT !.error =
                              Str(IF variant = "part_000" /\ ~req.apiKey.present
                                  THEN "Unauthorized: API key is required"
                                  ELSE "Unauthorized: Invalid API key")]]
    /\ UNCHANGED <<Config, req, calls, outcome>>

---------------------------------------------------------------------------
(* POST /send-email: the route handler up to the provider call *)

(* !to || !subject || !html *)
MissingFields(b) == ~Truthy(b.to) \/ ~Truthy(b.subject) \/ ~Truthy(b.html)

Sender(b) ==
    [email |-> OrElse(b.from, DefaultFrom), name |-> OrElse(b.name, DefaultName)]

(* The `to` of the provider request *)
Recipients(v, to) ==
    IF v = "part_000"
    THEN IF IsArray(to)
         THEN Arr([i \in 1..Len(to.items) |-> AddressObject(to.items[i])])
         ELSE Arr(<<AddressObject(to)>>)
    ELSE IF v = "index" THEN Arr(<<AddressObject(to)>>)
    ELSE to

(* CcRecipients without the cc.length > 0 test: an empty list is forwarded *)
CcRecipientsNoLengthTest(v, cc) ==
    IF Truthy(cc) /\ IsArray(cc)
    THEN IF v = "part_001" THEN cc
         ELSE Arr([i \in 1..Len(cc.items) |-> AddressObject(cc.items[i])])
    ELSE Undefined

(* The `cc` of the provider request; Undefined is "no cc".  The Brevo      *)
(* variants write cc: undefined, which the SDK's JSON body drops; the      *)
(* SendGrid variant leaves the key out.                                    *)
CcRecipients(v, cc) ==
    IF Truthy(cc) /\ IsArray(cc) /\ Len(cc.items) > 0
    THEN IF v = "part_001" THEN cc
         ELSE Arr([i \in 1..Len(cc.items) |-> AddressObject(cc.items[i])])
    ELSE Undefined

SendEmailRequest(v, b) ==
    IF v = "part_001"
    THEN [api |-> "sgMail.send", to |-> Recipients(v, b.to),
          from |-> OrElse(b.from, DefaultFrom), cc |-> CcRecipients(v, b.cc),
          subject |-> b.subject, html |-> b.html]
    ELSE [api |-> "sendTransacEmail", sender |-> Sender(b),
          to |-> Recipients(v, b.to), cc |-> CcRecipients(v, b.cc),
          subject |-> b.subject, htmlContent |-> b.html]

SendEmail ==
    /\ pc = "sendEmail"
    /\ IF MissingFields(req.body)
       THEN /\ pc' = "done"
            /\ reached' = reached \cup {"sendEmail"}
            /\ calls' = calls
            /\ res' = [res EXCEPT !.status = 400, !.by = "sendEmail",
                          !.body = [NoBody EXCEPT
                              !.success = Bool(FALSE),
                              !.error = Str("Missing required fields (to, subject, html)")]]
       ELSE /\ pc' = "awaitProvider"
            /\ reached' = reached \cup {"sendEmail", "provider"}
            /\ calls' = Append(calls, SendEmailRequest(variant, req.body))
            /\ res' = res
    /\ UNCHANGED <<Config, req, outcome>>

---------------------------------------------------------------------------
(* The provider's answer and the response made from it *)

ProviderData == {JsonObject("{\"messageId\":\"<1@relay>\"}"),
                 JsonObject("{\"messageId\":\"<2@relay>\"}")}

ProviderErrors ==
    { [response |-> [kind |-> "object",
                     text |-> Str("{\"code\":\"unauthorized\"}"),
                     body |-> JsonObject("{\"code\":\"unauthorized\"}")],
       code |-> "401", message |-> Str("Unauthorized")],
      [response |-> [kind |-> "object", text |-> Undefined,
                     body |-> JsonObject("{\"errors\":[]}")],
       code |-> "403", message |-> Str("Forbidden")],
      [response |-> Undefined, code |-> "undefined",
       message |-> Str("connect ECONNREFUSED")] }

(* JSON.stringify(v) inside a template literal *)
Stringify(v) ==
    IF v.kind = "undefined" THEN <<"undefined">>
    ELSE IF v.kind = "string" THEN <<"\"", v.str, "\"">>
    ELSE <<v.json>>

SuccessBody(v, data) ==
    [success |-> Bool(TRUE),
     data |-> IF v = "part_001" THEN Undefined ELSE data,
     error |-> Undefined]

ErrorMessage(v, e) ==
    IF ~Truthy(e.response) THEN e.message
    ELSE IF v = "part_000"
         THEN Text(<<"Brevo API error: ">> \o
                   Stringify(OrElse(OrElse(e.response.text, e.response.body),
                                    Str("Unknown API error"))))
    ELSE IF v = "index"
         THEN Text(<<"Brevo error: ">> \o Stringify(e.response.text))
    ELSE Text(<<"SendGrid error (", e.code, "): ">> \o Stringify(e.response.body))

FailureBody(v, e) ==
    [success |-> Bool(FALSE), data |-> Undefined, error |-> ErrorMessage(v, e)]

(* AfterCatch with a retry: the handler runs again after a failed send *)
AfterCatchRetry(v) == "sendEmail"

(* Where the handler goes after the catch block has answered *)
AfterCatch(v) == "done"

ProviderResolve ==
    /\ pc = "awaitProvider"
    /\ \E d \in ProviderData :
          /\ outcome' = [kind |-> "resolved", data |-> d]
          /\ res' = [res EXCEPT !.status = 200, !.by = "sendEmail",
                                !.body = SuccessBody(variant, d)]
    /\ pc' = "done"
    /\ UNCHANGED <<Config, req, reached, calls>>

ProviderReject ==
    /\ pc = "awaitProvider"
    /\ \E e \in ProviderErrors :
          /\ outcome' = [kind |-> "rejected", error |-> e]
          /\ res' = [res EXCEPT !.status = 500, !.by = "sendEmail",
                                !.body = FailureBody(variant, e)]
    /\ pc' = AfterCatch(variant)
    /\ UNCHANGED <<Config, req, reached, calls>>

---------------------------------------------------------------------------
(* The other routes *)

Health ==
    /\ pc = "health"
    /\ pc' = "done"
    /\ res' = [res EXCEPT !.status = 200, !.by = "health"]
    /\ UNCHANGED <<Config, req, reached, calls, outcome>>

CorsTest ==
    /\ pc = "corsTest"
    /\ pc' = "done"
    /\ res' = [res EXCEPT !.status = 200, !.by = "corsTest"]
    /\ UNCHANGED <<Config, req, reached, calls, outcome>>

(* part_000: the catch-all; the other variants: Express's own 404 *)
NotFound ==
    /\ pc = "notFound"
    /\ pc' = "done"
    /\ res' = [res EXCEPT !.status = 404, !.by = "notFound",
                          !.body = [NoBody EXCEPT !.error = Str("Not Found")]]
    /\ UNCHANGED <<Config, req, reached, calls, outcome>>

(* The response has been sent; the request's objects are discarded *)
Close ==
    /\ pc = "done"
    /\ pc' = "idle"
    /\ req' = NoRequest
    /\ res' = NoResponse
    /\ reached' = {}
    /\ calls' = <<>>
    /\ outcome' = Pending
    /\ UNCHANGED Config

Next ==
    \/ Receive
    \/ CorsMiddleware
    \/ ErrorHandler
    \/ ValidateApiKey
    \/ SendEmail
    \/ ProviderResolve
    \/ ProviderReject
    \/ Health
    \/ CorsTest
    \/ NotFound
    \/ Close

Spec == Init /\ [][Next]_vars

---------------------------------------------------------------------------
(* Properties *)

Done == pc = "done"

InFlight == pc # "idle"

(* The request's X-API-Key is exactly the configured secret *)
KeyMatches == req.apiKey.present /\ req.apiKey.val = API_SECRET_KEY(variant)

(* The request names an origin *)
OriginGiven == req.origin.present

(* The origin with one trailing slash trimmed *)
Trimmed(o) == IF Len(o) > 0 /\ o[Len(o)] = "/" THEN SubSeq(o, 1, Len(o) - 1) ELSE o

AllowList == ALLOWED_ORIGINS(variant, envOrigins)

InAllowList(o) == \E i \in DOMAIN AllowList : AllowList[i] = o

(* A field of the body is absent or empty *)
Empty(v) ==
    \/ v.kind = "undefined"
    \/ (v.kind = "string" /\ v.str = "")
    \/ (v.kind = "array" /\ Len(v.items) = 0)

(* The address an entry of a provider address list stands for *)
AddressOf(x) == IF x.kind = "object" THEN x.email ELSE x

GateStages == {"validateApiKey", "sendEmail", "provider"}

(* C1: a POST /send-email whose X-API-Key is absent or is not the           *)
(* configured secret is answered 401, and the provider is never invoked    *)
(* for it, whatever its body.                                              *)
C1_UnauthorizedIs401 ==
    (InFlight /\ IsSend(req) /\ ~KeyMatches) =>
        /\ calls = <<>>
        /\ (Done => res.status = 401)

(* C2, on the requests that reach the payload validation: a POST           *)
(* /send-email whose to, subject or html is absent or empty is answered    *)
(* 400 with success = false, and the provider is not invoked.              *)
C2_MissingFieldIs400 ==
    (InFlight /\ IsSend(req) /\ "sendEmail" \in reached
       /\ (Empty(req.body.to) \/ Empty(req.body.subject) \/ Empty(req.body.html))) =>
        /\ calls = <<>>
        /\ (Done => res.status = 400 /\ res.body.success = Bool(FALSE))

C4_PreflightShortCircuits ==
    (InFlight /\ req.method = "OPTIONS") =>
        /\ reached \cap GateStages = {}
        /\ calls = <<>>
        /\ (Done => res.status \in {200, 204} /\ res.by = "cors")

(* C5: a request that is not OPTIONS and whose Origin is not in the        *)
(* allow-list is not rejected for it: it is routed like any other request  *)
(* (a POST /send-email reaches the credential check), and is never         *)
(* answered by the error handler.                                          *)
C5_ForeignOriginNotRejected ==
    (Done /\ req.method # "OPTIONS" /\ OriginGiven
       /\ ~InAllowList(Trimmed(req.origin.val))) =>
        /\ res.by # "errorHandler"
        /\ (IsSend(req) => "validateApiKey" \in reached)

(* C6: in every provider call, a recipient given as one string is a        *)
(* one-element address list, and a recipient given as a list of N strings  *)
(* is N address objects in the same order.  (For the SendGrid variant,     *)
(* whose SDK builds the address objects itself, the recipient handed over  *)
(* unchanged counts as that list.)                                         *)
C6_RecipientsNormalized ==
    \A i \in DOMAIN calls :
        LET to == req.body.to
            sent == calls[i].to
        IN  IF variant = "part_001" THEN sent = to
            ELSE /\ sent.kind = "array"
                 /\ IF to.kind = "array"
                    THEN /\ Len(sent.items) = Len(to.items)
                         /\ \A j \in DOMAIN sent.items :
                               sent.items[j] = AddressObject(to.items[j])
                    ELSE sent.items = <<AddressObject(to)>>

(* C7: in every provider call, the request has no cc when the request's CC *)
(* list is absent or empty, and otherwise carries every CC address,        *)
(* unchanged and in order.                                                 *)
C7_CcForwarding ==
    \A i \in DOMAIN calls :
        LET cc == req.body.cc
            sent == calls[i].cc
        IN  /\ (cc.kind = "undefined" \/ (cc.kind = "array" /\ Len(cc.items) = 0))
                 => sent = Undefined
            /\ (cc.kind = "array" /\ Len(cc.items) >= 1)
                 => /\ sent.kind = "array"
                    /\ Len(sent.items) = Len(cc.items)
                    /\ \A j \in DOMAIN sent.items :
                          AddressOf(sent.items[j]) = cc.items[j]

(* a provider call has been made for a request with two or more CC         *)
(* addresses                                                               *)
C7_Witness ==
    /\ Len(calls) = 1
    /\ req.body.cc.kind = "array"
    /\ Len(req.body.cc.items) >= 2
    /\ calls[1].cc.kind = "array"

(* C8: a request causes at most one provider call; once the provider has   *)
(* answered, well or badly, the request is finished with exactly one call  *)
(* made; and a finished request that passed the credential check and the   *)
(* payload validation made exactly one.                                    *)
C8_SingleAttempt ==
    /\ Len(calls) <= 1
    /\ (outcome.kind # "none" => Done /\ Len(calls) = 1)
    /\ (Done /\ "sendEmail" \in reached /\ res.status # 400 => Len(calls) = 1)

(* the provider has rejected the one call of a request, which is finished  *)
C8_Witness ==
    /\ Done
    /\ outcome.kind = "rejected"
    /\ Len(calls) = 1
    /\ res.status = 500

(* C9: the response mirrors the provider's answer: 200 with success = true *)
(* and the provider's data when it resolved, 500 with success = false and  *)
(* an error string when it rejected.                                       *)
C9_ResponseMirrorsOutcome ==
    /\ (Done /\ outcome.kind = "resolved") =>
          /\ res.status = 200
          /\ res.body.success = Bool(TRUE)
          /\ res.body.data = outcome.data
    /\ (Done /\ outcome.kind = "rejected") =>
          /\ res.status = 500
          /\ res.body.success = Bool(FALSE)
          /\ res.body.error.kind \in {"string", "text"}

(* C10: GET /health is answered 200 whatever the Origin, the X-API-Key and *)
(* the runtime mode.                                                       *)
C10_HealthAlways200 ==
    (Done /\ req.method = "GET" /\ req.path = "/health") => res.status = 200

====
